---- MODULE Spec2Model ----
(***************************************************************************)
(* A model of the ComfyUI API client (comfyui_api_client/api_helpers.py    *)
(* and the HTTP wrappers it calls): one run of generate_image_by_prompt,   *)
(* load_cache_models or generate_image_by_prompt_and_image, from opening   *)
(* the websocket to closing it.  Every blocking call of the code (connect, *)
(* an HTTP request, ws.recv, ws.close) is one step of the model; the       *)
(* server and the network are the environment and choose each call's       *)
(* result.                                                                 *)
(***************************************************************************)
EXTENDS Naturals, Sequences, FiniteSets

\* ------------------------------------------------------------------ bounds
\* the longest `nodes` list of an execution_cached frame
MaxCached == 2
\* the largest number of node entries in a history's "outputs"
MaxOutNodes == 2
\* the largest number of images a history lists, over all its nodes
MaxImages == 2
\* the largest number of nodes of a workflow drawn for find_workflow_key
MaxGraph == 3
\* the longest list of LoRAs passed to add_loras_to_workflow
MaxLoras == 3
\* the highest lora_<n> index the calls of add_loras_to_workflow may reach
MaxSlot == 4
\* the largest number of pieces a prompt string is put together from
MaxPieces == 3

\* ------------------------------------------------------------- vocabulary
\* Python's None, and the empty str / empty bytes
None == "None"
Empty == ""

NodeIds == {"a", "b", "c"}
JobIds == {"J1", "J2"}

GENERATE == "generate_image_by_prompt"
LOAD == "load_cache_models"
GENERATE_WITH_IMAGE == "generate_image_by_prompt_and_image"
Ops == {GENERATE, LOAD, GENERATE_WITH_IMAGE}

\* the sequences over S of length n, and of length at most n
RECURSIVE SeqsOfLen(_, _)
SeqsOfLen(S, n) ==
    IF n = 0 THEN {<<>>}
    ELSE {<<x>> \o s : x \in S, s \in SeqsOfLen(S, n - 1)}

SeqsUpTo(S, n) == UNION {SeqsOfLen(S, k) : k \in 0..n}

\* the elements of a sequence
Range(s) == {s[i] : i \in 1..Len(s)}

\* ------------------------------------------------- frames of the websocket
\* What ws.recv() returns: a str holding JSON ("text"), bytes ("binary"), or
\* a str the loop's json.loads / key look-ups choke on ("malformed").
Frame(kind, type, nodes, node, pid) ==
    [kind |-> kind, type |-> type, nodes |-> nodes, node |-> node, prompt_id |-> pid]

NoFrame == Frame("none", None, <<>>, None, None)
ProgressFrame == Frame("text", "progress", <<>>, None, None)
CachedFrame(ns) == Frame("text", "execution_cached", ns, None, None)
ExecutingFrame(n, j) == Frame("text", "executing", <<>>, n, j)
StatusFrame == Frame("text", "status", <<>>, None, None)
BinaryFrame == Frame("binary", None, <<>>, None, None)
MalformedFrame == Frame("malformed", None, <<>>, None, None)

Frames ==
    {ProgressFrame, StatusFrame, BinaryFrame, MalformedFrame}
    \cup {CachedFrame(ns) : ns \in SeqsUpTo(NodeIds, MaxCached)}
    \cup {ExecutingFrame(n, j) : n \in NodeIds \cup {None}, j \in JobIds}

\* ------------------------------------------------------ result manifests
\* One image descriptor of a history: its class ("type") and what GET /view
\* answers for it: bytes ("data"), no bytes at all (Empty), or an HTTP error.
ImageTypes == {"output", "temp", "input"}
Contents == {"data", Empty, "error"}
\* the content of a descriptor that is never fetched is not drawn
Descriptors ==
    {[type |-> t, content |-> c] : t \in {"output", "temp"}, c \in Contents}
    \cup {[type |-> "input", content |-> "data"]}

\* the "outputs" of a history: n node entries listing at most t images in all
RECURSIVE OutputsOf(_, _)
OutputsOf(n, t) ==
    IF n = 0 THEN {<<>>}
    ELSE UNION {{<<imgs>> \o rest : imgs \in SeqsOfLen(Descriptors, l),
                                    rest \in OutputsOf(n - 1, t - l)} : l \in 0..t}

Manifests == UNION {OutputsOf(n, MaxImages) : n \in 0..MaxOutNodes}

\* The images of a history in the order the two nested loops of get_images
\* visit them, each named after its place (node entry i, image j).
RECURSIVE Visit(_, _)
Visit(outputs, i) ==
    IF i > Len(outputs) THEN <<>>
    ELSE [j \in 1..Len(outputs[i]) |->
             [filename |-> <<i, j>>,
              type |-> outputs[i][j].type,
              content |-> outputs[i][j].content]]
         \o Visit(outputs, i + 1)

VARIABLES
    op,              \* the operation that runs
    pc,              \* where it is
    ws,              \* the WebSocket: "unconnected", "connected", "closed"
    close_calls,     \* how often ws.close() was invoked
    prompt_id,       \* the job id queue_prompt returned, None before
    node_ids,        \* track_progress: list(prompt.keys())
    finished_nodes,  \* track_progress: the done set
    message,         \* track_progress: the frame received last
    history,         \* get_images: the "outputs" of the job's history
    allow_preview,   \* get_images: the flag
    cursor,          \* get_images: the place in Visit(history, 1)
    output_images,   \* get_images: the list built so far
    images_data,     \* what get_images returned
    pending,         \* what the finally block completes: "return" or "raise"
    outcome,         \* how the operation ended: "returned" or "raised"
    \* history variables, read by the properties only
    reports,         \* the "Progress: n/m Tasks done" lines logged
    finished_before, \* the done set before the frame received last
    reports_before,  \* the number of report lines before that frame
    own_ids,         \* ids of cached frames and of the tracked job's executing frames
    track_exit,      \* why the loop of track_progress ended
    track_result,    \* how track_progress ended for its caller
    collect_exit,    \* how get_images ended
    phases,          \* the phases the run entered, in order
    \* text2image.py: the graph functions
    workflow,        \* the workflow dict, its nodes in insertion order
    call,            \* the function applied last and its arguments
    returned,        \* what it returned
    loras_dir,       \* os.listdir(loras_dir)
    \* history variables, read by the properties only
    before,          \* the workflow before the function was applied
    resolver_calls,  \* the calls of find_available_lora_by_name it made
    assigned,        \* the lora_<n> indices it assigned, in order
    \* two runs side by side, each on a channel of its own
    pair,            \* run -> where it is, its client id, its job
    slot_done,       \* frame of a track_progress call -> its finished_nodes
    actor            \* the run that took the last step

trackVars == <<node_ids, finished_nodes, message>>
collectVars == <<history, allow_preview, cursor, output_images, images_data>>
ghostTrack == <<reports, finished_before, reports_before, own_ids, track_exit,
               track_result>>
runVars == <<op, pc, ws, close_calls, prompt_id, trackVars, collectVars, pending,
             outcome, ghostTrack, collect_exit, phases>>
graphVars == <<workflow, call, returned, loras_dir, before, resolver_calls,
               assigned>>
\* the variables that the functions of text2image.py leave alone
pairVars == <<pair, slot_done, actor>>
notGraphVars == <<runVars, pairVars>>
restVars == <<graphVars, pairVars>>
vars == <<runVars, restVars>>

\* no operation of api_helpers.py was called yet
RunIdle ==
    /\ op = None
    /\ pc = "idle"
    /\ ws = "unconnected"
    /\ close_calls = 0
    /\ prompt_id = None
    /\ node_ids = {}
    /\ finished_nodes = {}
    /\ message = NoFrame
    /\ history = <<>>
    /\ allow_preview = FALSE
    /\ cursor = 0
    /\ output_images = <<>>
    /\ images_data = <<>>
    /\ pending = None
    /\ outcome = None
    /\ reports = 0
    /\ finished_before = {}
    /\ reports_before = 0
    /\ own_ids = {}
    /\ track_exit = None
    /\ track_result = None
    /\ collect_exit = None
    /\ phases = <<>>

\* no function of text2image.py was applied yet
NoCall == [fn |-> None]

GraphIdle ==
    /\ workflow = <<>>
    /\ call = NoCall
    /\ returned = None
    /\ loras_dir = <<>>
    /\ before = <<>>
    /\ resolver_calls = 0
    /\ assigned = <<>>

\* the two runs side by side
Runs == {1, 2}

\* neither run was started
PairIdle ==
    /\ pair = [p \in Runs |-> [pc |-> "idle", client_id |-> None,
                               prompt_id |-> None, exit |-> None,
                               expected |-> {}]]
    /\ slot_done = [p \in Runs |-> {}]
    /\ actor = None

RestIdle == GraphIdle /\ PairIdle

Init == RunIdle /\ RestIdle

\* -------------------------------------------------------- leaving the try
\* Each operation runs its calls inside try: ... finally: ws.close().

\* the try body ends normally: the finally block runs, then the return
Leave ==
    /\ pc' = "finally"
    /\ pending' = "return"

Propagate_NoFinally ==
    /\ pc' = "done"
    /\ pending' = "raise"

\* an exception leaves the try body: the finally block runs, then it propagates
Propagate ==
    /\ pc' = "finally"
    /\ pending' = "raise"

\* ----------------------------------------------- the order of the calls
\* after open_websocket_connection
AfterOpen == IF op = GENERATE_WITH_IMAGE THEN "upload" ELSE "queue"

AfterQueue_CollectFirst == IF op = LOAD THEN "track" ELSE "collect"

\* after queue_prompt
AfterQueue == "track"

\* after get_images
AfterCollect == IF op = GENERATE THEN "open_images" ELSE "save"

\* ------------------------------------------------------------ operations
\* A caller invokes one of the three operations.
Call(o) ==
    /\ UNCHANGED restVars
    /\ pc = "idle"
    /\ op' = o
    /\ pc' = "open"
    /\ UNCHANGED <<ws, close_calls, prompt_id, trackVars, collectVars, pending,
                   outcome, ghostTrack, collect_exit, phases>>

\* ws.connect succeeds, or fails and ConnectionError is raised before the try.
open_websocket_connection ==
    /\ UNCHANGED restVars
    /\ pc = "open"
    /\ \/ /\ ws' = "connected"
          /\ pc' = AfterOpen
          /\ phases' = Append(phases, "open")
          /\ UNCHANGED outcome
       \/ /\ pc' = "done"
          /\ outcome' = "raised"
          /\ UNCHANGED <<ws, phases>>
    /\ UNCHANGED <<op, close_calls, prompt_id, trackVars, collectVars, pending,
                   ghostTrack, collect_exit>>

\* POST /upload/image answers, or fails and the error is re-raised.
upload_image ==
    /\ UNCHANGED restVars
    /\ pc = "upload"
    /\ phases' = Append(phases, "upload")
    /\ \/ pc' = "queue" /\ UNCHANGED pending
       \/ Propagate
    /\ UNCHANGED <<op, ws, close_calls, prompt_id, trackVars, collectVars,
                   outcome, ghostTrack, collect_exit>>

\* POST /prompt answers with a prompt_id, or fails and the error is re-raised.
queue_prompt ==
    /\ UNCHANGED restVars
    /\ pc = "queue"
    /\ phases' = Append(phases, "submit")
    /\ \/ /\ \E j \in JobIds : prompt_id' = j
          /\ pc' = AfterQueue
          /\ UNCHANGED pending
       \/ /\ Propagate
          /\ UNCHANGED prompt_id
    /\ UNCHANGED <<op, ws, close_calls, trackVars, collectVars, outcome,
                   ghostTrack, collect_exit>>

\* --------------------------------------------------------- track_progress
\* Python's truth value of a node id: None and the empty str are false
Truthy(x) == x # None /\ x # Empty

\* The loop over the nodes of an execution_cached frame: a node not yet in
\* the done set is added and one report line is logged for it.
RECURSIVE CachedLoop(_, _, _)
CachedLoop(nodes, fin, rep) ==
    IF nodes = <<>> THEN [finished |-> fin, reports |-> rep]
    ELSE IF Head(nodes) \notin fin
         THEN CachedLoop(Tail(nodes), fin \cup {Head(nodes)}, rep + 1)
         ELSE CachedLoop(Tail(nodes), fin, rep)

\* The done set and the report count after a text frame m was handled.
MarkDone(m, fin, rep) ==
    IF m.type = "execution_cached" THEN CachedLoop(m.nodes, fin, rep)
    ELSE IF m.type = "executing" /\ Truthy(m.node) /\ m.node \notin fin
         THEN [finished |-> fin \cup {m.node}, reports |-> rep + 1]
         ELSE [finished |-> fin, reports |-> rep]

IsDone_AnyJob(m) ==
    /\ m.type = "executing"
    /\ m.node = None

IsDone_CountReached(m) ==
    \/ /\ m.type = "executing"
       /\ m.node = None
       /\ m.prompt_id = prompt_id
    \/ Cardinality(MarkDone(m, finished_nodes, reports).finished)
           >= Cardinality(node_ids)

IsDone_Never(m) == FALSE

\* "Execution is done": the break of the executing branch
IsDone(m) ==
    /\ m.type = "executing"
    /\ m.node = None
    /\ m.prompt_id = prompt_id

\* the ids a frame carries for the tracked job: those of a cached frame, and
\* the non-null node of an executing frame of the tracked job
OwnIds(m) ==
    IF m.type = "execution_cached" THEN Range(m.nodes)
    ELSE IF m.type = "executing" /\ m.node # None /\ m.prompt_id = prompt_id
         THEN {m.node}
         ELSE {}

\* track_progress is entered: node_ids and finished_nodes are set up.  The
\* graph is read here only, so the caller's prompt is drawn where it is read.
track_progress ==
    /\ UNCHANGED restVars
    /\ pc = "track"
    /\ \E keys \in SUBSET NodeIds : node_ids' = keys
    /\ finished_nodes' = {}
    /\ message' = NoFrame
    /\ pc' = "recv"
    /\ phases' = Append(phases, "track")
    /\ UNCHANGED <<op, ws, close_calls, prompt_id, collectVars, pending, outcome,
                   ghostTrack, collect_exit>>

\* ws.recv() fails: the error is logged and the loop is left by break.
recv_error ==
    /\ UNCHANGED restVars
    /\ pc = "recv"
    /\ track_exit' = "recv_error"
    /\ pc' = "track_return"
    /\ UNCHANGED <<op, ws, close_calls, prompt_id, trackVars, collectVars, pending,
                   outcome, reports, finished_before, reports_before, own_ids,
                   track_result, collect_exit, phases>>

\* ws.recv() returns bytes: not a str, the frame is dropped.
recv_binary ==
    /\ UNCHANGED restVars
    /\ pc = "recv"
    /\ message' = BinaryFrame
    /\ finished_before' = finished_nodes
    /\ reports_before' = reports
    /\ UNCHANGED <<op, pc, ws, close_calls, prompt_id, node_ids, finished_nodes,
                   collectVars, pending, outcome, reports, own_ids, track_exit,
                   track_result, collect_exit, phases>>

\* ws.recv() returns a str that json.loads or a key look-up rejects: the
\* exception is not caught in track_progress and reaches the caller's try.
recv_malformed ==
    /\ UNCHANGED restVars
    /\ pc = "recv"
    /\ track_exit' = "bad_frame"
    /\ track_result' = "raised"
    /\ node_ids' = {}
    /\ finished_nodes' = {}
    /\ message' = NoFrame
    /\ reports' = 0
    /\ finished_before' = {}
    /\ reports_before' = 0
    /\ own_ids' = {}
    /\ Propagate
    /\ UNCHANGED <<op, ws, close_calls, prompt_id, collectVars, outcome,
                   collect_exit, phases>>

\* ws.recv() returns a JSON text frame: one turn of the loop.
recv_text ==
    /\ UNCHANGED restVars
    /\ pc = "recv"
    /\ \E m \in {f \in Frames : f.kind = "text"} :
          LET after == MarkDone(m, finished_nodes, reports) IN
          /\ message' = m
          /\ finished_before' = finished_nodes
          /\ reports_before' = reports
          /\ finished_nodes' = after.finished
          /\ reports' = after.reports
          /\ own_ids' = own_ids \cup OwnIds(m)
          /\ IF IsDone(m)
             THEN pc' = "track_return" /\ track_exit' = "done"
             ELSE pc' = "recv" /\ UNCHANGED track_exit
    /\ UNCHANGED <<op, ws, close_calls, prompt_id, node_ids, collectVars, pending,
                   outcome, track_result, collect_exit, phases>>

\* after track_progress
AfterTrack == IF op = LOAD THEN "finally" ELSE "collect"

\* track_progress returns None to its caller; its locals are gone.
track_progress_return ==
    /\ UNCHANGED restVars
    /\ pc = "track_return"
    /\ track_result' = "returned"
    /\ node_ids' = {}
    /\ finished_nodes' = {}
    /\ message' = NoFrame
    /\ reports' = 0
    /\ finished_before' = {}
    /\ reports_before' = 0
    /\ own_ids' = {}
    /\ pc' = AfterTrack
    /\ pending' = IF op = LOAD THEN "return" ELSE pending
    /\ UNCHANGED <<op, ws, close_calls, prompt_id, collectVars, outcome,
                   track_exit, collect_exit, phases>>

\* -------------------------------------------------------------- get_images
Fetches_PreviewsAlways(image, allow) ==
    \/ image.type = "temp"
    \/ image.type = "output"

\* whether get_images calls get_image for a descriptor
Fetches(image, allow) ==
    \/ allow /\ image.type = "temp"
    \/ image.type = "output"

\* Python's truth value of image_data: None and empty bytes are false
HasData(image_data) == image_data # None /\ image_data # Empty

\* the entry get_images appends for a fetched image
Entry(image, image_data) ==
    [image_data |-> image_data, file_name |-> image.filename, type |-> image.type]

HistoryFailure_Swallowed ==
    /\ collect_exit' = "history_error"
    /\ history' = <<>>
    /\ cursor' = 1
    /\ pc' = "get_images"
    /\ UNCHANGED <<allow_preview, output_images, images_data, pending>>

\* GET /history/{prompt_id} fails: get_history logs and re-raises, get_images
\* does not catch it, and the exception reaches the caller's try.
HistoryFailure ==
    /\ collect_exit' = "history_error"
    /\ Propagate
    /\ UNCHANGED collectVars

\* get_images is entered: GET /history/{prompt_id} answers, or fails and the
\* error is re-raised by get_history.  A history without the prompt_id key,
\* or without "outputs", reads as no outputs.  The flag is read by get_images
\* only, so the caller's save_previews is drawn where it is read.
get_history ==
    /\ UNCHANGED restVars
    /\ pc = "collect"
    /\ phases' = Append(phases, "collect")
    /\ \/ /\ \E h \in Manifests : history' = h
          /\ \E flag \in BOOLEAN : allow_preview' = flag
          /\ cursor' = 1
          /\ output_images' = <<>>
          /\ pc' = "get_images"
          /\ UNCHANGED <<pending, collect_exit, images_data>>
       \/ HistoryFailure
    /\ UNCHANGED <<op, ws, close_calls, prompt_id, trackVars, outcome, ghostTrack>>

\* One turn of the inner loop of get_images: the descriptor is fetched when
\* its class asks for it, and appended when the fetch gave data.  get_image
\* re-raises a failed fetch and get_images does not catch it.
get_image ==
    /\ UNCHANGED restVars
    /\ pc = "get_images"
    /\ cursor <= Len(Visit(history, 1))
    /\ LET image == Visit(history, 1)[cursor] IN
       IF Fetches(image, allow_preview) /\ image.content = "error"
       THEN /\ collect_exit' = "image_error"
            /\ cursor' = 0
            /\ output_images' = <<>>
            /\ Propagate
            /\ UNCHANGED <<history, allow_preview, images_data>>
       ELSE LET image_data == IF Fetches(image, allow_preview)
                              THEN image.content ELSE None IN
            /\ output_images' = IF HasData(image_data)
                                THEN Append(output_images, Entry(image, image_data))
                                ELSE output_images
            /\ cursor' = cursor + 1
            /\ UNCHANGED <<pc, pending, collect_exit, history, allow_preview,
                           images_data>>
    /\ UNCHANGED <<op, ws, close_calls, prompt_id, trackVars, outcome, ghostTrack,
                   phases>>

\* The loops are over: get_images returns output_images.
get_images_return ==
    /\ UNCHANGED restVars
    /\ pc = "get_images"
    /\ cursor > Len(Visit(history, 1))
    /\ images_data' = output_images
    /\ collect_exit' = "returned"
    /\ cursor' = 0
    /\ output_images' = <<>>
    /\ pc' = AfterCollect
    /\ UNCHANGED <<op, ws, close_calls, prompt_id, trackVars, history,
                   allow_preview, pending, outcome, ghostTrack, phases>>

\* generate_image_by_prompt opens each image; PIL raises on bytes it cannot
\* read.
open_images ==
    /\ UNCHANGED restVars
    /\ pc = "open_images"
    /\ \/ Leave
       \/ images_data # <<>> /\ Propagate
    /\ UNCHANGED <<op, ws, close_calls, prompt_id, trackVars, collectVars, outcome,
                   ghostTrack, collect_exit, phases>>

\* save_images: an image that cannot be opened or written is logged and
\* skipped; os.makedirs is outside that try and its error propagates.
save_images ==
    /\ UNCHANGED restVars
    /\ pc = "save"
    /\ \/ Leave
       \/ images_data # <<>> /\ Propagate
    /\ UNCHANGED <<op, ws, close_calls, prompt_id, trackVars, collectVars, outcome,
                   ghostTrack, collect_exit, phases>>

\* The finally block: ws.close(), then the return or the pending exception.
close ==
    /\ UNCHANGED restVars
    /\ pc = "finally"
    /\ ws' = "closed"
    /\ close_calls' = close_calls + 1
    /\ phases' = Append(phases, "close")
    /\ outcome' = IF pending = "raise" THEN "raised" ELSE "returned"
    /\ pc' = "done"
    /\ UNCHANGED <<op, prompt_id, trackVars, collectVars, pending, ghostTrack,
                   collect_exit>>

Next ==
    \/ \E o \in Ops : Call(o)
    \/ open_websocket_connection
    \/ upload_image
    \/ queue_prompt
    \/ track_progress
    \/ recv_error
    \/ recv_binary
    \/ recv_malformed
    \/ recv_text
    \/ track_progress_return
    \/ get_history
    \/ get_image
    \/ get_images_return
    \/ open_images
    \/ save_images
    \/ close

Spec == Init /\ [][Next]_vars

\* ------------------------------------------------------------- properties
\* the tracker holds a frame it received while it was Running
Tracking == pc \in {"recv", "track_return"}

ForeignDone(m) ==
    /\ m.type = "executing"
    /\ m.node = None
    /\ m.prompt_id # prompt_id

\* C1: an executing frame with node = null that names another job never ends
\* tracking: after it the tracker goes on receiving (it can then only be
\* stopped by a failing recv), and when the loop is left as done the frame
\* received last names the tracked job.
C1_ForeignDoneIgnored ==
    /\ (Tracking /\ ForeignDone(message))
           => (pc = "recv" \/ track_exit = "recv_error")
    /\ (Tracking /\ track_exit = "done")
           => (message.node = None /\ message.prompt_id = prompt_id)

\* C1 witness: the tracker received executing(null, other job) and is still
\* receiving
C1_Witness ==
    /\ pc = "recv"
    /\ ForeignDone(message)
    /\ track_exit = None

\* C2: an executing frame of another job changes neither the done set nor
\* the reported done-count.
C2_ForeignExecutingIgnored ==
    (Tracking /\ message.type = "executing" /\ message.prompt_id # prompt_id)
        => (finished_nodes = finished_before /\ reports = reports_before)

\* C3: when ws.recv fails while the tracker is Running, track_progress ends
\* with an error for its caller, not the way a completed run ends.
C3_ChannelFailureFails ==
    (track_exit = "recv_error" /\ track_result # None) => track_result = "raised"

\* C4: after a channel failure during tracking, generate_image_by_prompt
\* performs no result collection and does not return as if the job succeeded.
C4_FailureDistinguishable ==
    (op = GENERATE /\ track_exit = "recv_error")
        => ("collect" \notin Range(phases) /\ outcome # "returned")

\* C5: the loop of track_progress is left as done only on an executing frame
\* with node = null of the tracked job; the done-count reaching or exceeding
\* the number of nodes, also of a graph without nodes, does not end it.
C5_OnlyDoneEventCompletes ==
    /\ (pc = "track_return")
           => (\/ track_exit = "recv_error"
               \/ /\ track_exit = "done"
                  /\ message = ExecutingFrame(None, prompt_id))
    /\ (track_result = "returned") => track_exit \in {"done", "recv_error"}

\* C5 witness: a graph without nodes, a done-count above the total, and the
\* tracker is still receiving
C5_Witness ==
    /\ pc = "recv"
    /\ node_ids = {}
    /\ finished_nodes # {}
    /\ reports > Cardinality(node_ids)

\* C6: while tracking, the done set is exactly the ids carried by the cached
\* frames and by the non-null executing frames of the tracked job, each
\* reported once.
C6_DoneSetIsOwnIds ==
    Tracking => (finished_nodes = own_ids /\ reports = Cardinality(own_ids))

\* C7: a websocket that was connected is closed exactly once when the
\* operation has returned or raised, and close is never invoked twice.
C7_ChannelClosedOnce ==
    /\ close_calls <= 1
    /\ (pc = "done" /\ "open" \in Range(phases))
           => (ws = "closed" /\ close_calls = 1)
    /\ (pc = "done" /\ "open" \notin Range(phases))
           => (ws = "unconnected" /\ close_calls = 0)

\* C7 witness: an operation that raised while collecting results has ended
\* with its websocket closed
C7_Witness ==
    /\ pc = "done"
    /\ outcome = "raised"
    /\ collect_exit = "image_error"
    /\ close_calls = 1

Rank(phase) ==
    CASE phase = "open" -> 1
      [] phase = "upload" -> 2
      [] phase = "submit" -> 3
      [] phase = "track" -> 4
      [] phase = "collect" -> 5
      [] phase = "close" -> 6

\* C8: a run enters its phases in the order open, (upload,) submit, track,
\* collect, close: the job is submitted on a connected websocket only, frames
\* are received only for a job id that was obtained, and result collection
\* starts only after track_progress has returned.
C8_RunOrder ==
    /\ \A i, j \in 1..Len(phases) : i < j => Rank(phases[i]) < Rank(phases[j])
    /\ (pc \in {"upload", "queue"}) => ws = "connected"
    /\ ("submit" \in Range(phases)) => ("open" \in Range(phases) /\ ws # "unconnected")
    /\ ("track" \in Range(phases)) => ("submit" \in Range(phases) /\ prompt_id \in JobIds)
    /\ Tracking => (ws = "connected" /\ prompt_id \in JobIds)
    /\ ("collect" \in Range(phases))
           => ("track" \in Range(phases) /\ track_result = "returned")
    /\ ("close" \in Range(phases)) => pc = "done"
    /\ (pc = "done" /\ outcome = "returned" /\ op = GENERATE)
           => phases = <<"open", "submit", "track", "collect", "close">>

\* C8 witness: generate_image_by_prompt has returned
C8_Witness ==
    /\ pc = "done"
    /\ op = GENERATE
    /\ outcome = "returned"

\* the class filter the claim states, and a list of descriptors as entries
Wanted(image) ==
    \/ image.type = "output"
    \/ allow_preview /\ image.type = "temp"

WantedWithData(image) == Wanted(image) /\ image.content # Empty

Entries(images) ==
    [i \in 1..Len(images) |->
        [image_data |-> images[i].content,
         file_name |-> images[i].filename,
         type |-> images[i].type]]

\* C9 as stated: get_images returns exactly the descriptors of class output,
\* and of class temp when allow_preview is set, in the manifest's order.
C9_ExactlyTheClass ==
    (collect_exit = "returned")
        => images_data = Entries(SelectSeq(Visit(history, 1), Wanted))

\* C9 as amended: get_images returns exactly the descriptors of class output,
\* and of class temp when allow_preview is set, whose fetch gave at least one
\* byte, in the manifest's order.
C9_ClassFilter ==
    (collect_exit = "returned")
        => images_data = Entries(SelectSeq(Visit(history, 1), WantedWithData))

\* C9 witness: without allow_preview, a manifest listing a temp image gave a
\* result that is not empty
C9_Witness ==
    /\ collect_exit = "returned"
    /\ ~allow_preview
    /\ \E i \in 1..Len(Visit(history, 1)) : Visit(history, 1)[i].type = "temp"
    /\ images_data # <<>>

\* C10: a failing fetch of one artifact does not make get_images fail.
C10_FetchFailureSkipped ==
    collect_exit # "image_error"

\* C11: when fetching the history fails, get_images ends with the error for
\* its caller: no image is fetched, no list is returned, and the operation
\* raises.
C11_HistoryFailureAborts ==
    (collect_exit = "history_error")
        => /\ pc \in {"finally", "done"}
           /\ pending = "raise"
           /\ outcome # "returned"
           /\ cursor = 0
           /\ output_images = <<>>
           /\ images_data = <<>>

\* C11 witness: an operation has ended raising the history error
C11_Witness ==
    /\ collect_exit = "history_error"
    /\ pc = "done"
    /\ outcome = "raised"

\* =================================================== text2image.py: graphs
\* A workflow is a dict from node key to node; the model keeps its items in
\* insertion order, the i-th node under the i-th key of WorkflowKeys.
WorkflowKeys == <<"1", "2", "3", "4", "5", "6", "7", "8">>

DP == "DPRandomGenerator"
CLIP == "CLIPTextEncode"
LATENT == "EmptyLatentImage"
SEED == "Seed (rgthree)"
LOADER == "Power Lora Loader (rgthree)"

\* the inputs of a node: "text", the size fields and "seed" (None: the key is
\* absent), and the lora_<n> entries as a function from n to the entry
Inputs(text, size, seed, loras) ==
    [text |-> text, size |-> size, seed |-> seed, loras |-> loras]

NoLoras == <<>>

Node(class_type, inputs) == [class_type |-> class_type, inputs |-> inputs]

\* workflow.items(): the nodes with their keys
Items(wf) == [i \in 1..Len(wf) |-> [key |-> WorkflowKeys[i], data |-> wf[i]]]

Skips_AllRoles(key, workflow_data) ==
    workflow_data.inputs.text # Empty

Skips_Inverted(key, workflow_data) ==
    key = CLIP /\ workflow_data.inputs.text = Empty

\* a node of the wanted class that the loop passes over: a CLIPTextEncode
\* node whose inputs.get("text") is not the empty str
Skips(key, workflow_data) ==
    key = CLIP /\ workflow_data.inputs.text # Empty

\* the loop of find_workflow_key from item i on
RECURSIVE FindFrom(_, _, _)
FindFrom(items, key, i) ==
    IF i > Len(items) THEN None
    ELSE IF items[i].data.class_type = key /\ ~Skips(key, items[i].data)
         THEN items[i].key
         ELSE FindFrom(items, key, i + 1)

find_workflow_key(wf, key) == FindFrom(Items(wf), key, 1)

\* ------------------------------------ find_workflow_key applied to a graph
FindTexts == {Empty, "x", None}
FindNodes == {Node(c, Inputs(t, None, None, NoLoras)) : c \in {CLIP, DP}, t \in FindTexts}
FindGraphs == SeqsUpTo(FindNodes, MaxGraph)
FindRoles == {CLIP, DP, LOADER}

FindInit ==
    /\ RunIdle
    /\ PairIdle
    /\ workflow \in FindGraphs
    /\ call = NoCall
    /\ returned = None
    /\ loras_dir = <<>>
    /\ before = <<>>
    /\ resolver_calls = 0
    /\ assigned = <<>>

FindCall ==
    /\ call = NoCall
    /\ \E key \in FindRoles :
          /\ call' = [fn |-> "find_workflow_key", key |-> key]
          /\ returned' = find_workflow_key(workflow, key)
    /\ UNCHANGED <<notGraphVars, workflow, loras_dir, before, resolver_calls,
                   assigned>>

FindNext == FindCall

SpecFind == FindInit /\ [][FindNext]_vars

\* the places of the nodes of a class in a workflow
Carriers(wf, role) == {i \in 1..Len(wf) : wf[i].class_type = role}

FindDone == call.fn = "find_workflow_key"

\* C14 as stated: a role carried by exactly one node gives that node's key,
\* a role carried by no node gives None.
C14_UniqueRoleFound ==
    FindDone =>
        /\ \A i \in 1..Len(workflow) :
              Carriers(workflow, call.key) = {i} => returned = WorkflowKeys[i]
        /\ Carriers(workflow, call.key) = {} => returned = None

\* C14 as amended: a role carried by exactly one node gives that node's key,
\* except that a CLIPTextEncode node whose text input is not the empty str is
\* passed over and gives None; a role carried by no node gives None.
C14_UniqueRoleFoundUnlessSkipped ==
    FindDone =>
        /\ \A i \in 1..Len(workflow) :
              Carriers(workflow, call.key) = {i} =>
                  returned = IF call.key = CLIP /\ workflow[i].inputs.text # Empty
                             THEN None
                             ELSE WorkflowKeys[i]
        /\ Carriers(workflow, call.key) = {} => returned = None

\* C14 witness: the one node of a role, behind a node of another role, was found
C14_Witness ==
    /\ FindDone
    /\ Carriers(workflow, call.key) = {2}
    /\ returned = WorkflowKeys[2]

\* the CLIPTextEncode nodes whose text is the empty str
EmptyClips(wf) == {i \in Carriers(wf, CLIP) : wf[i].inputs.text = Empty}

\* C15: of two CLIPTextEncode nodes, one with a text that is not empty and one
\* with the empty text, the one with the empty text is returned in either
\* order; of several nodes that qualify the first in insertion order is
\* returned.
C15_EmptyTextNodeChosen ==
    (FindDone /\ call.key = CLIP) =>
        /\ \A i, j \in 1..Len(workflow) :
              (/\ Carriers(workflow, CLIP) = {i, j}
               /\ workflow[i].inputs.text = Empty
               /\ workflow[j].inputs.text \notin {Empty, None})
                  => returned = WorkflowKeys[i]
        /\ \A i \in EmptyClips(workflow) :
              (\A k \in EmptyClips(workflow) : i <= k) => returned = WorkflowKeys[i]

\* C15 witness: the node with a text came first and the node with the empty
\* text behind it was returned
C15_Witness ==
    /\ FindDone
    /\ call.key = CLIP
    /\ Carriers(workflow, CLIP) = {1, 2}
    /\ workflow[1].inputs.text = "x"
    /\ workflow[2].inputs.text = Empty
    /\ returned = WorkflowKeys[2]

\* ================================================ add_loras_to_workflow
\* File names, LoRA names and paths are strings, modelled as the sequences
\* of their characters.
IsIn(name, file) ==
    \E k \in 1..(Len(file) - Len(name) + 1) :
        SubSeq(file, k, k + Len(name) - 1) = name

\* os.path.join(loras_dir, file), with the directory "d"
Join(file) == <<"d", "/">> \o file

\* find_available_lora_by_name returns None
NoPath == <<>>

\* the loop of find_available_lora_by_name over os.listdir(loras_dir)
RECURSIVE find_available_lora_by_name(_, _)
find_available_lora_by_name(listing, name) ==
    IF listing = <<>> THEN NoPath
    ELSE IF IsIn(name, Head(listing)) THEN Join(Head(listing))
         ELSE find_available_lora_by_name(Tail(listing), name)

Max(S) == IF S = {} THEN 0 ELSE CHOOSE m \in S : \A k \in S : k <= m

LastLoraIdx_Count(lora_idxes) == Cardinality(lora_idxes)

\* last_lora_idx = max(lora_idxes, default=0)
LastLoraIdx(lora_idxes) == Max(lora_idxes)

\* inputs[f"lora_{idx}"] = entry
Put(loras, idx, entry) ==
    [i \in DOMAIN loras \cup {idx} |-> IF i = idx THEN entry ELSE loras[i]]

LoraEntry(lora_path, weight) == [on |-> TRUE, lora |-> lora_path, strength |-> weight]

AfterMiss_Stop(rest) == <<>>

\* `continue` after a LoRA that was not found: the loop goes on with the rest
AfterMiss(rest) == Tail(rest)

\* The loop over the LoRAs.  acc holds the lora_<n> entries of the loader
\* node, last_lora_idx, and what the properties read: the number of resolver
\* calls and the indices assigned.
RECURSIVE AddLoop(_, _, _)
AddLoop(rest, listing, acc) ==
    IF rest = <<>> THEN acc
    ELSE LET lora == Head(rest)
             lora_path == find_available_lora_by_name(listing, lora.name)
         IN  IF lora_path = NoPath
             THEN AddLoop(AfterMiss(rest), listing,
                          [acc EXCEPT !.calls = @ + 1])
             ELSE AddLoop(Tail(rest), listing,
                          [loras |-> Put(acc.loras, acc.last + 1,
                                         LoraEntry(lora_path, lora.weight)),
                           last |-> acc.last + 1,
                           calls |-> acc.calls + 1,
                           assigned |-> Append(acc.assigned, acc.last + 1)])

WithoutLoader_Resolves(wf, loras) ==
    [workflow |-> wf, calls |-> Len(loras), assigned |-> <<>>]

\* no loader node: a warning is logged and the workflow is returned as it is
WithoutLoader(wf, loras) ==
    [workflow |-> wf, calls |-> 0, assigned |-> <<>>]

\* add_loras_to_workflow: the workflow it returns (the caller's dict, mutated
\* in place), the resolver calls and the indices assigned
add_loras_to_workflow(wf, loras, listing) ==
    LET key == find_workflow_key(wf, LOADER) IN
    IF key = None
    THEN WithoutLoader(wf, loras)
    ELSE LET k == CHOOSE i \in 1..Len(wf) : WorkflowKeys[i] = key
             end == AddLoop(loras, listing,
                            [loras |-> wf[k].inputs.loras,
                             last |-> LastLoraIdx(DOMAIN wf[k].inputs.loras),
                             calls |-> 0,
                             assigned |-> <<>>])
         IN  [workflow |-> [wf EXCEPT ![k].inputs.loras = end.loras],
              calls |-> end.calls,
              assigned |-> end.assigned]

\* ------------------------- add_loras_to_workflow applied again and again
\* the files of the directory and the listings os.listdir may give
LoraFiles == {<<"x", "y">>, <<"y">>}
Listings == {<<>>, <<<<"x", "y">>>>, <<<<"y">>, <<"x", "y">>>>}
\* the LoRAs of a prompt: "x" and "y" are in files, "q" is in none
LoraRefs ==
    {[name |-> <<"x">>, weight |-> "0.8"],
     [name |-> <<"y">>, weight |-> "1.2"],
     [name |-> <<"q">>, weight |-> "0.5"]}
LoraLists == SeqsUpTo(LoraRefs, MaxLoras)

\* an entry the workflow file came with
OldEntry == LoraEntry(<<"o">>, "1.0")
OldLoras == {[i \in S |-> OldEntry] : S \in SUBSET {1, 2}}
LoaderNode(loras) == Node(LOADER, Inputs(None, None, None, loras))
PlainNode == Node(DP, Inputs(Empty, None, None, NoLoras))
LoraGraphs ==
    {<<PlainNode>>}
    \cup {<<LoaderNode(l)>> : l \in OldLoras}
    \cup {<<PlainNode, LoaderNode(l)>> : l \in OldLoras}

\* the lora_<n> entries of the loader node of a workflow, none without loader
LoaderLoras(wf) ==
    LET key == find_workflow_key(wf, LOADER) IN
    IF key = None THEN NoLoras
    ELSE wf[CHOOSE i \in 1..Len(wf) : WorkflowKeys[i] = key].inputs.loras

LorasInit ==
    /\ RunIdle
    /\ PairIdle
    /\ workflow \in LoraGraphs
    /\ loras_dir \in Listings
    /\ call = NoCall
    /\ returned = None
    /\ before = <<>>
    /\ resolver_calls = 0
    /\ assigned = <<>>

AddLorasCall ==
    /\ \E loras \in LoraLists :
          \E result \in {add_loras_to_workflow(workflow, loras, loras_dir)} :
          /\ Max(DOMAIN LoaderLoras(result.workflow)) <= MaxSlot
          /\ call' = [fn |-> "add_loras_to_workflow", loras |-> loras]
          /\ before' = workflow
          /\ workflow' = result.workflow
          /\ returned' = result.workflow
          /\ resolver_calls' = result.calls
          /\ assigned' = result.assigned
    /\ UNCHANGED <<notGraphVars, loras_dir>>

LorasNext == AddLorasCall

SpecLoras == LorasInit /\ [][LorasNext]_vars

AddDone == call.fn = "add_loras_to_workflow"

\* C12: in every call of add_loras_to_workflow each index assigned is one
\* above the highest index present at that moment (0 without entries), so no
\* entry that was present is overwritten and the indices rise in input order.
C12_NextIndexAboveMax ==
    AddDone =>
        /\ \A k \in 1..Len(assigned) :
              /\ assigned[k] = 1 + Max(DOMAIN LoaderLoras(before)
                                       \cup {assigned[j] : j \in 1..(k - 1)})
              /\ assigned[k] \notin DOMAIN LoaderLoras(before)
        /\ \A j, k \in 1..Len(assigned) : j < k => assigned[j] < assigned[k]
        /\ \A i \in DOMAIN LoaderLoras(before) :
              /\ i \in DOMAIN LoaderLoras(workflow)
              /\ LoaderLoras(workflow)[i] = LoaderLoras(before)[i]

\* C12 witness: three LoRAs were added under 1, 2, 3 to a loader without
\* entries, and a later call with a LoRA that was not found added one more
\* under 4
C12_Witness ==
    /\ AddDone
    /\ assigned = <<4>>
    /\ Len(call.loras) = 2
    /\ call.loras[1].name = <<"q">>
    /\ DOMAIN LoaderLoras(workflow) = {1, 2, 3, 4}
    /\ \A i \in 1..3 : LoaderLoras(workflow)[i] # OldEntry

\* the LoRAs of a list that the resolver finds
Resolvable(lora) == find_available_lora_by_name(loras_dir, lora.name) # NoPath

\* C13: with a loader node, the entries a call adds are one per LoRA that the
\* resolver finds, in input order (a LoRA that is not found is passed over and
\* the next ones are still handled), each with on = true, the path found and
\* the weight of that LoRA.
C13_OneEntryPerResolvable ==
    (AddDone /\ find_workflow_key(before, LOADER) # None) =>
        LET hits == SelectSeq(call.loras, Resolvable)
            base == Max(DOMAIN LoaderLoras(before))
        IN  /\ returned = workflow
            /\ DOMAIN LoaderLoras(workflow)
                   = DOMAIN LoaderLoras(before) \cup {base + k : k \in 1..Len(hits)}
            /\ \A k \in 1..Len(hits) :
                  LoaderLoras(workflow)[base + k]
                      = [on |-> TRUE,
                         lora |-> find_available_lora_by_name(loras_dir, hits[k].name),
                         strength |-> hits[k].weight]
            /\ resolver_calls = Len(call.loras)

\* C13 witness: a LoRA that was not found stood between two that were found,
\* and both were added
C13_Witness ==
    /\ AddDone
    /\ Len(call.loras) = 3
    /\ call.loras[1].name = <<"y">>
    /\ call.loras[2].name = <<"q">>
    /\ call.loras[3].name = <<"x">>
    /\ Len(assigned) = 2

\* ============================================== extract_and_remove_loras
\* A prompt is the sequence of its characters.  The literal "<lora:" of the
\* pattern is one character of the model, OPEN; "a" stands for the letters,
\* "1" for the digits, " " for white space.
OPEN == "<lora:"
\* [a-zA-Z0-9\-_.] and [\d.]
NameChars == {"a", "1", "."}
WeightChars == {"1", "."}

\* the end of the longest run of characters of a class that starts at i
\* (i - 1 when there is none): what a greedy + takes
RECURSIVE RunEnd(_, _, _)
RunEnd(str, i, class) ==
    IF i <= Len(str) /\ str[i] \in class THEN RunEnd(str, i + 1, class) ELSE i - 1

\* The match of the pattern that starts at i, if there is one.  The colon is
\* no name character and ">" no weight character, so the greedy runs are the
\* only candidates.
MatchAt(str, i) ==
    LET name_end == RunEnd(str, i + 1, NameChars)
        weight_end == RunEnd(str, name_end + 2, WeightChars)
    IN  IF /\ str[i] = OPEN
           /\ name_end >= i + 1
           /\ name_end + 1 <= Len(str)
           /\ str[name_end + 1] = ":"
           /\ weight_end >= name_end + 2
           /\ weight_end + 1 <= Len(str)
           /\ str[weight_end + 1] = ">"
        THEN [found |-> TRUE,
              name |-> SubSeq(str, i + 1, name_end),
              weight |-> SubSeq(str, name_end + 2, weight_end),
              end |-> weight_end + 1]
        ELSE [found |-> FALSE, name |-> <<>>, weight |-> <<>>, end |-> i]

\* re.findall: the groups of the matches, leftmost first, none overlapping
RECURSIVE FindAll(_, _)
FindAll(str, i) ==
    IF i > Len(str) THEN <<>>
    ELSE LET m == MatchAt(str, i) IN
         IF m.found
         THEN <<[name |-> m.name, weight |-> m.weight]>> \o FindAll(str, m.end + 1)
         ELSE FindAll(str, i + 1)

\* re.sub(pattern, "", input_string)
RECURSIVE Sub(_, _)
Sub(str, i) ==
    IF i > Len(str) THEN <<>>
    ELSE LET m == MatchAt(str, i) IN
         IF m.found THEN Sub(str, m.end + 1)
         ELSE <<str[i]>> \o Sub(str, i + 1)

\* str.strip()
RECURSIVE Strip(_)
Strip(str) ==
    IF str = <<>> THEN <<>>
    ELSE IF Head(str) = " " THEN Strip(Tail(str))
    ELSE IF str[Len(str)] = " " THEN Strip(SubSeq(str, 1, Len(str) - 1))
    ELSE str

Dots(w) == Cardinality({i \in 1..Len(w) : w[i] = "."})

\* float() accepts digits with at most one point, and at least one digit
FloatAccepts(w) == Dots(w) <= 1 /\ Len(w) > Dots(w)

\* float(w): the digits before and behind the point ("1." and "1" are equal)
Float(w) ==
    LET point == IF Dots(w) = 0 THEN Len(w) + 1
                 ELSE CHOOSE i \in 1..Len(w) : w[i] = "."
    IN  [int |-> SubSeq(w, 1, point - 1), frac |-> SubSeq(w, point + 1, Len(w))]

\* extract_and_remove_loras: the ValueError of float() leaves the function
extract_and_remove_loras(input_string) ==
    LET matches == FindAll(input_string, 1) IN
    IF \E k \in 1..Len(matches) : ~FloatAccepts(matches[k].weight)
    THEN [raised |-> TRUE, loras |-> <<>>, cleaned |-> <<>>]
    ELSE [raised |-> FALSE,
          loras |-> [k \in 1..Len(matches) |->
                        [name |-> matches[k].name,
                         weight |-> Float(matches[k].weight)]],
          cleaned |-> Strip(Sub(input_string, 1))]

\* ------------------------------ extract_and_remove_loras applied to a prompt
\* the prompts: up to MaxPieces of these pieces, one after the other
Pieces ==
    {<<" ">>, <<"a">>, <<"1">>, <<".">>, <<":">>, <<">">>, <<OPEN>>,
     <<"a", " ">>, <<" ", "a">>,
     <<OPEN, "a", ":">>,
     <<OPEN, "a", ":", "1", ">">>,
     <<OPEN, "a", "1", ":", "1", ".", "1", ">">>,
     <<OPEN, "a", ":", ".", ">">>}

RECURSIVE Concat(_)
Concat(pieces) == IF pieces = <<>> THEN <<>> ELSE Head(pieces) \o Concat(Tail(pieces))

Prompts == {Concat(ps) : ps \in SeqsUpTo(Pieces, MaxPieces)}

ParseInit ==
    /\ RunIdle
    /\ PairIdle
    /\ GraphIdle

ParseCall ==
    /\ call = NoCall
    /\ \E input_string \in Prompts :
          /\ call' = [fn |-> "extract_and_remove_loras", input_string |-> input_string]
          /\ returned' = extract_and_remove_loras(input_string)
    /\ UNCHANGED <<notGraphVars, workflow, loras_dir, before, resolver_calls,
                   assigned>>

ParseNext == ParseCall

SpecParse == ParseInit /\ [][ParseNext]_vars

ParseDone == call.fn = "extract_and_remove_loras"

\* A tag of a prompt: OPEN at i, ">" at j, and between them a name, a colon
\* at c and a decimal number.
IsTag(str, i, c, j) ==
    /\ str[i] = OPEN
    /\ str[c] = ":"
    /\ str[j] = ">"
    /\ i + 1 < c
    /\ c + 1 < j
    /\ \A k \in (i + 1)..(c - 1) : str[k] \in NameChars
    /\ \A k \in (c + 1)..(j - 1) : str[k] \in WeightChars
    /\ FloatAccepts(SubSeq(str, c + 1, j - 1))

Tags(str) ==
    {t \in (1..Len(str)) \X (1..Len(str)) \X (1..Len(str)) : IsTag(str, t[1], t[2], t[3])}

\* the tags in the order of their places
RECURSIVE InOrder(_)
InOrder(tags) ==
    IF tags = {} THEN <<>>
    ELSE LET first == CHOOSE t \in tags : \A u \in tags : t[1] <= u[1]
         IN  <<first>> \o InOrder(tags \ {first})

TagPairs(str) ==
    LET ts == InOrder(Tags(str)) IN
    [k \in 1..Len(ts) |->
        [name |-> SubSeq(str, ts[k][1] + 1, ts[k][2] - 1),
         weight |-> Float(SubSeq(str, ts[k][2] + 1, ts[k][3] - 1))]]

InTag(str, k) == \E t \in Tags(str) : t[1] <= k /\ k <= t[3]

\* the characters of a prompt outside its tags
RECURSIVE Outside(_, _)
Outside(str, k) ==
    IF k > Len(str) THEN <<>>
    ELSE IF InTag(str, k) THEN Outside(str, k + 1)
    ELSE <<str[k]>> \o Outside(str, k + 1)

\* the cleaned string has white space neither first nor last, and is the
\* rest of the prompt without some leading and trailing white space
Trimmed(rest, cleaned) ==
    /\ cleaned = <<>> \/ (cleaned[1] # " " /\ cleaned[Len(cleaned)] # " ")
    /\ \E lead, trail \in 0..Len(rest) :
          /\ lead + trail + Len(cleaned) = Len(rest)
          /\ SubSeq(rest, lead + 1, Len(rest) - trail) = cleaned
          /\ \A k \in 1..lead : rest[k] = " "
          /\ \A k \in (Len(rest) - trail + 1)..Len(rest) : rest[k] = " "

\* C17: for every prompt, extract_and_remove_loras returns the name and
\* weight of every tag, left to right with duplicates kept, and the prompt
\* without its tags, trimmed at both ends only.
C17_TagsExtractedAndRemoved ==
    ParseDone =>
        /\ ~returned.raised
        /\ returned.loras = TagPairs(call.input_string)
        /\ Trimmed(Outside(call.input_string, 1), returned.cleaned)

\* what is left of C17 for the prompts on which float() accepts every weight
\* that the pattern matches
C17_HoldsWithoutBadWeight ==
    (ParseDone /\ ~returned.raised) =>
        /\ returned.loras = TagPairs(call.input_string)
        /\ Trimmed(Outside(call.input_string, 1), returned.cleaned)

\* ================================================================ text2img
\* the nodes of the workflow files text2img is given
DpNode == Node(DP, Inputs("o", None, None, NoLoras))
ClipNode(text) == Node(CLIP, Inputs(text, None, None, NoLoras))
LatentNode == Node(LATENT, Inputs(None, "s0", None, NoLoras))
SeedNode == Node(SEED, Inputs(None, None, "d0", NoLoras))

\* A workflow file holds some of these nodes, in this order.  The first
\* CLIPTextEncode node takes its text from a link, the others have text "".
T2IPool ==
    <<DpNode, ClipNode("x"), ClipNode(Empty), ClipNode(Empty), LatentNode,
      SeedNode, LoaderNode(<<OldEntry>>)>>

RECURSIVE Pick(_, _)
Pick(S, i) ==
    IF i > Len(T2IPool) THEN <<>>
    ELSE (IF i \in S THEN <<T2IPool[i]>> ELSE <<>>) \o Pick(S, i + 1)

T2IGraphs == {Pick(S, 1) : S \in SUBSET (1..Len(T2IPool))}

\* workflow[key]: the place of the node with that key
KeyIndex(key) == CHOOSE i \in 1..Len(WorkflowKeys) : WorkflowKeys[i] = key

\* the classes whose nodes lines 133-140 write, in the order of the lines
Targets == <<DP, CLIP, LATENT, SEED>>

\* the n-th assignment of lines 133-140 to the node at place k; the third
\* replaces the whole inputs dict
Assign(wf, n, k, args) ==
    IF n = 1 THEN [wf EXCEPT ![k].inputs.text = args.cleaned]
    ELSE IF n = 2 THEN [wf EXCEPT ![k].inputs.text = args.negative]
    ELSE IF n = 3 THEN [wf EXCEPT ![k].inputs = Inputs(None, args.size, None, NoLoras)]
    ELSE [wf EXCEPT ![k].inputs.seed = args.seed]

\* Lines 133-140 from the n-th assignment on.  find_workflow_key reads the
\* dict as the earlier assignments left it; workflow[None] raises KeyError
\* and the dict stays as it is at that moment.
RECURSIVE RewriteFrom(_, _, _, _)
RewriteFrom(wf, n, args, targets) ==
    IF n > Len(Targets) THEN [raised |-> FALSE, workflow |-> wf, targets |-> targets]
    ELSE LET key == find_workflow_key(wf, Targets[n]) IN
         IF key = None
         THEN [raised |-> TRUE, workflow |-> wf, targets |-> Append(targets, None)]
         ELSE RewriteFrom(Assign(wf, n, KeyIndex(key), args), n + 1, args,
                          Append(targets, key))

\* the arguments: what extract_and_remove_loras makes of the positive prompt
\* (a ValueError, no LoRA, or a LoRA in no file and one in a file) and the
\* negative prompt; width, height, batch_size and seed are the defaults
Parses ==
    {[raised |-> TRUE, loras |-> <<>>, cleaned |-> Empty],
     [raised |-> FALSE, loras |-> <<>>, cleaned |-> "p"],
     [raised |-> FALSE, cleaned |-> "p",
      loras |-> <<[name |-> <<"q">>, weight |-> "0.5"],
                  [name |-> <<"x">>, weight |-> "0.8"]>>]}
Negatives == {Empty, "n"}
DefaultSize == "512x512x1"
DefaultSeed == "42"

T2IInit ==
    /\ RunIdle
    /\ PairIdle
    /\ workflow \in T2IGraphs
    /\ loras_dir = <<<<"x", "y">>>>
    /\ call = NoCall
    /\ returned = None
    /\ before = <<>>
    /\ resolver_calls = 0
    /\ assigned = <<>>

\* no call of text2img is under way
T2IOver ==
    IF call = NoCall THEN TRUE
    ELSE \/ call.at = "raised"
         \/ call.at = "running" /\ pc = "done"

\* the nodes that the call before this one wrote, if it wrote them all
PrevTargets ==
    IF call # NoCall /\ call.at = "running" THEN call.targets ELSE <<>>

\* text2img, lines 130-140: the prompt is parsed and the nodes are written
text2img ==
    /\ T2IOver
    /\ \E negative_prompt \in Negatives, parse \in Parses :
          \E r \in {IF parse.raised
                    THEN [raised |-> TRUE, workflow |-> workflow, targets |-> <<>>]
                    ELSE RewriteFrom(workflow, 1,
                                     [cleaned |-> parse.cleaned,
                                      negative |-> negative_prompt,
                                      size |-> DefaultSize,
                                      seed |-> DefaultSeed], <<>>)} :
          /\ workflow' = r.workflow
          /\ call' = [fn |-> "text2img",
                      at |-> IF r.raised THEN "raised" ELSE "add_loras",
                      raised_at |-> IF parse.raised THEN "extract"
                                    ELSE IF r.raised THEN "rewrite" ELSE None,
                      negative |-> negative_prompt,
                      loras |-> parse.loras,
                      entry |-> workflow,
                      targets |-> r.targets,
                      prev |-> PrevTargets]
    /\ UNCHANGED <<notGraphVars, loras_dir, returned, before, resolver_calls,
                   assigned>>

\* text2img, line 143
text2img_add_loras ==
    /\ call # NoCall
    /\ call.fn = "text2img"
    /\ call.at = "add_loras"
    /\ \E result \in {add_loras_to_workflow(workflow, call.loras, loras_dir)} :
          /\ Max(DOMAIN LoaderLoras(result.workflow)) <= MaxSlot
          /\ before' = workflow
          /\ workflow' = result.workflow
          /\ resolver_calls' = result.calls
          /\ assigned' = result.assigned
    /\ call' = [call EXCEPT !.at = "generate"]
    /\ UNCHANGED <<notGraphVars, loras_dir, returned>>

\* text2img, line 148: generate_image_by_prompt is entered, with locals of
\* its own
text2img_generate ==
    /\ call # NoCall
    /\ call.fn = "text2img"
    /\ call.at = "generate"
    /\ call' = [call EXCEPT !.at = "running"]
    /\ op' = GENERATE
    /\ pc' = "open"
    /\ ws' = "unconnected"
    /\ close_calls' = 0
    /\ prompt_id' = None
    /\ pending' = None
    /\ outcome' = None
    /\ phases' = <<>>
    /\ UNCHANGED <<trackVars, collectVars, ghostTrack, collect_exit, pairVars>>
    /\ UNCHANGED <<workflow, loras_dir, returned, before, resolver_calls,
                   assigned>>

\* text2img up to the submission of the job, called again and again: what
\* generate_image_by_prompt does after queue_prompt are the steps of Spec
T2INext ==
    \/ text2img
    \/ text2img_add_loras
    \/ text2img_generate
    \/ open_websocket_connection
    \/ queue_prompt
    \/ close

SpecT2I == T2IInit /\ [][T2INext]_vars

NoLoaderIn(wf) == \A i \in 1..Len(wf) : wf[i].class_type # LOADER

\* line 143 of a call of text2img is behind
LorasAdded == call # NoCall /\ call.fn = "text2img" /\ call.at \in {"generate", "running"}

\* C16: without a loader node add_loras_to_workflow leaves every node and
\* every input of the workflow as it was, calls no resolver and raises
\* nothing, and text2img goes on to submit the job.
C16_NoLoaderIsNoOp ==
    /\ (LorasAdded /\ NoLoaderIn(before)) =>
          /\ workflow = before
          /\ resolver_calls = 0
          /\ assigned = <<>>
    /\ (call # NoCall /\ call.fn = "text2img" /\ call.at = "raised") =>
          call.raised_at \in {"extract", "rewrite"}
    /\ (call # NoCall /\ call.fn = "text2img" /\ call.at = "running"
        /\ "submit" \in Range(phases)) => LorasAdded

C16_Witness ==
    /\ LorasAdded
    /\ NoLoaderIn(before)
    /\ call.loras # <<>>
    /\ "submit" \in Range(phases)
    /\ prompt_id # None

\* the call of text2img follows one that wrote all its target nodes
SecondRewrite ==
    /\ call # NoCall
    /\ call.fn = "text2img"
    /\ call.prev # <<>>
    /\ call.raised_at # "extract"

\* C20: a rewrite of a workflow that text2img has rewritten before finds
\* every target node and writes the nodes that the first rewrite wrote,
\* whatever the negative prompt was.
C20_RewriteRepeatable ==
    SecondRewrite => call.targets = call.prev

\* text2img failed at workflow[None]: a target node was not found
TargetMissing ==
    /\ call # NoCall
    /\ call.fn = "text2img"
    /\ call.raised_at = "rewrite"

\* C21: when text2img fails because a target node is absent, no job is
\* submitted and the workflow is as it was when text2img was called: no
\* input of any node has been rewritten.
C21_FailedRewriteLeavesWorkflow ==
    TargetMissing =>
        /\ call.at = "raised"
        /\ workflow = call.entry

\* what is left of C21: the failed call submits no job, and it has written
\* no node of the class that is absent nor of the classes after it
C21_LaterTargetsUntouched ==
    TargetMissing =>
        /\ call.at = "raised"
        /\ \A i \in 1..Len(workflow), n \in Len(call.targets)..Len(Targets) :
              workflow[i].class_type \in {Targets[n], LOADER} =>
                  workflow[i] = call.entry[i]

\* ================================================ track_progress returns
\* A run up to the return of track_progress.
TrackNext ==
    \/ \E o \in Ops : Call(o)
    \/ open_websocket_connection
    \/ upload_image
    \/ queue_prompt
    \/ track_progress
    \/ recv_error
    \/ recv_binary
    \/ recv_malformed
    \/ recv_text
    \/ track_progress_return

\* the channel delivers the done event of the tracked job, or fails
TrackEnd ==
    \/ recv_error
    \/ recv_text /\ message' = ExecutingFrame(None, prompt_id)

\* The channel ends the tracking at some time, and the interpreter goes on
\* after the break.
SpecTrack ==
    /\ Init
    /\ [][TrackNext]_vars
    /\ WF_vars(TrackEnd)
    /\ WF_vars(track_progress_return)

\* the loop is left
LoopLeft == pc = "recv" /\ pc' # "recv"

\* C19: track_progress returns once the channel has delivered the done event
\* of the tracked job or has failed; the frames before that (progress,
\* cached, executing of any job, other types, binary) neither end the loop
\* nor keep it from ending.
C19_TrackingEnds ==
    /\ [][LoopLeft =>
             \/ track_exit' = "recv_error"
             \/ track_exit' = "bad_frame"
             \/ message' = ExecutingFrame(None, prompt_id)]_vars
    /\ (pc = "recv") ~> (track_result = "returned" \/ track_exit = "bad_frame")

C19_Witness ==
    /\ pc = "track_return"
    /\ track_exit = "done"
    /\ reports >= 2
    /\ finished_nodes \ own_ids # {}

\* ================================================ two runs side by side
\* Two threads of one process each call generate_image_by_prompt.  Every
\* call has its own WebSocket object and its own locals; the module holds
\* nothing but the logger.
ClientIds == {"u1", "u2", "u3"}

\* uuid.uuid4(): an id that no channel was opened with before
FreshIds == ClientIds \ {pair[p].client_id : p \in Runs}

Slot_Shared(p) == 1

\* the frame that holds the finished_nodes of the track_progress call of
\* run p: a local, so each call has one of its own
Slot(p) == p

\* the break of the executing branch in a call that tracks job
IsDoneFor(m, job) ==
    /\ m.type = "executing"
    /\ m.node = None
    /\ m.prompt_id = job

PairStep(p) ==
    /\ actor' = p
    /\ UNCHANGED <<runVars, graphVars>>

pair_open(p) ==
    /\ PairStep(p)
    /\ pair[p].pc = "idle"
    /\ \/ \E id \in FreshIds :
             pair' = [pair EXCEPT ![p].client_id = id, ![p].pc = "queue"]
       \/ pair' = [pair EXCEPT ![p].pc = "done", ![p].exit = "connect_error"]
    /\ UNCHANGED slot_done

pair_queue(p) ==
    /\ PairStep(p)
    /\ pair[p].pc = "queue"
    /\ \/ \E j \in JobIds :
             pair' = [pair EXCEPT ![p].prompt_id = j, ![p].pc = "track"]
       \/ pair' = [pair EXCEPT ![p].pc = "done", ![p].exit = "queue_error"]
    /\ UNCHANGED slot_done

\* finished_nodes = set()
pair_track(p) ==
    /\ PairStep(p)
    /\ pair[p].pc = "track"
    /\ slot_done' = [slot_done EXCEPT ![Slot(p)] = {}]
    /\ pair' = [pair EXCEPT ![p].pc = "recv", ![p].expected = {}]

pair_recv_error(p) ==
    /\ PairStep(p)
    /\ pair[p].pc = "recv"
    /\ pair' = [pair EXCEPT ![p].pc = "done", ![p].exit = "recv_error"]
    /\ UNCHANGED slot_done

pair_recv_malformed(p) ==
    /\ PairStep(p)
    /\ pair[p].pc = "recv"
    /\ pair' = [pair EXCEPT ![p].pc = "done", ![p].exit = "bad_frame"]
    /\ UNCHANGED slot_done

\* a text frame arrives on the channel of run p; expected is the done set
\* that the frames of this channel alone give
pair_recv_text(p) ==
    /\ PairStep(p)
    /\ pair[p].pc = "recv"
    /\ \E m \in {f \in Frames : f.kind = "text"} :
          /\ slot_done' = [slot_done EXCEPT
                              ![Slot(p)] = MarkDone(m, slot_done[Slot(p)], 0).finished]
          /\ pair' = [pair EXCEPT
                         ![p].expected = MarkDone(m, pair[p].expected, 0).finished,
                         ![p].pc = IF IsDoneFor(m, pair[p].prompt_id)
                                   THEN "done" ELSE "recv",
                         ![p].exit = IF IsDoneFor(m, pair[p].prompt_id)
                                     THEN "done" ELSE pair[p].exit]

PairNext ==
    \/ \E p \in Runs : pair_open(p)
    \/ \E p \in Runs : pair_queue(p)
    \/ \E p \in Runs : pair_track(p)
    \/ \E p \in Runs : pair_recv_error(p)
    \/ \E p \in Runs : pair_recv_malformed(p)
    \/ \E p \in Runs : pair_recv_text(p)

SpecPair == Init /\ [][PairNext]_vars

\* the done set that the tracker of run p reads
DoneSet(p) == slot_done[Slot(p)]

\* C18: of two runs side by side, under every interleaving, the done set of
\* each tracker is what the frames of its own channel give, a step of one
\* run changes neither the done set nor the position nor the exit of the
\* other, and the two channels have different client ids.
C18_PairsIndependent ==
    /\ [](\A p \in Runs : pair[p].pc = "recv" => DoneSet(p) = pair[p].expected)
    /\ [](\A p, q \in Runs :
             (p # q /\ pair[p].client_id # None) =>
                 pair[p].client_id # pair[q].client_id)
    /\ [][\A p \in Runs :
             actor' # p =>
                 /\ pair'[p] = pair[p]
                 /\ pair[p].pc = "recv" => DoneSet(p)' = DoneSet(p)]_vars

C18_Witness ==
    /\ \A p \in Runs : pair[p].pc = "recv" /\ DoneSet(p) # {}
    /\ DoneSet(1) # DoneSet(2)
    /\ pair[1].prompt_id # pair[2].prompt_id

====
